---- MODULE Spec2Model ----
(***************************************************************************)
(* gsql (src/gsql/gsql.go): the batch-accumulation and execution loop.     *)
(*                                                                         *)
(* Text is modelled as sequences of one-character strings, so that the     *)
(* regular expressions of processLine are evaluated character by           *)
(* character.  A pattern is the sequence of the characters of its source   *)
(* text; "|", "^", "$", "(" and ")" are the metacharacters, every other    *)
(* character is a literal.                                                 *)
(***************************************************************************)
EXTENDS Integers, Sequences, FiniteSets, TLC

VARIABLES
    terminator,   \* flag -c (line 70)
    interactive,  \* inputFile = "/gsqlnone/" (lines 326-332)
    pageSize,     \* flag -p (line 79)
    pc,           \* position of main's loop (lines 340-475)
    batch,        \* main's batch (line 269)
    err,          \* main's err, as last assigned
    rbatch,       \* ReadBatch's named result batch while it accumulates
    lineNo,       \* ReadBatch's lineNo
    atEOF,        \* the script stream has delivered io.EOF
    fed,          \* history, kept until main submits: lines given to processLine
                  \* since rbatch was last empty
    intr,         \* history: the last thing Readline delivered was an interrupt
    lpc,          \* position of the listener goroutine (lines 367-374)
    discarded,    \* history: an interrupt discarded text during this ReadBatch call
    inFlightSig,  \* history: a notification arrived while QueryContext was running
    lateCancel,   \* history: cancel() was called after QueryContext had returned
                  \* (both kept until main has looked at what QueryContext returned)
    cbuf,         \* notifications held in the buffer of channel c (line 364)
    idleSig,      \* history: a notification arrived while main was reading or
                  \* dispatching, kept until the next submission has been handled
    rs,           \* the ResultSet rows currently stands on
    rsIndex,      \* its number within the batch
    r,            \* rows fetched from it (line 404)
    tableRows,    \* rows appended to the current table and not yet rendered
    calls,        \* history: calls made on behalf of the current batch
    out           \* history: renders and summary lines of the current ResultSet

vars == <<terminator, interactive, pageSize, pc, batch, err, rbatch, lineNo, atEOF,
          fed, intr, discarded, lpc, inFlightSig, lateCancel, cbuf, idleSig, rs, rsIndex,
          r, tableRows, calls, out>>

(***************************************************************************)
(* Bounds of the model.                                                    *)
(***************************************************************************)
MaxLines == 2
MaxRows == 1
MaxPageSize == 2
MaxResultSets == 2

(***************************************************************************)
(* Regular expressions (package regexp, RE2 syntax) restricted to          *)
(* literals, alternation, grouping and the anchors ^ and $.  Without the   *)
(* m flag, ^ matches only at the beginning of the text and $ only at its   *)
(* end.                                                                    *)
(***************************************************************************)
\* Nesting depth of position k of pattern p: groups opened and not closed before it.
Depth(p, k) ==
    Cardinality({i \in 1..(k - 1) : p[i] = "("}) - Cardinality({i \in 1..(k - 1) : p[i] = ")"})

\* Positions of the "|" of p that belong to no group.
TopBars(p) ==
    {k \in 1..Len(p) : p[k] = "|" /\ Depth(p, k) = 0}

\* Position of the ")" closing the "(" at position 1 of p.
CloseOf(p) ==
    CHOOSE k \in 2..Len(p) :
        /\ p[k] = ")"
        /\ Depth(p, k) = 1
        /\ \A j \in 2..(k - 1) : ~(p[j] = ")" /\ Depth(p, j) = 1)

MinOf(S) ==
    CHOOSE x \in S : \A y \in S : x <= y

RECURSIVE MatchAlt(_, _, _), MatchCat(_, _, _)
\* The positions j such that pattern p matches s[i+1..j]; alternation binds weakest.
MatchAlt(p, s, i) ==
    IF TopBars(p) = {}
    THEN MatchCat(p, s, i)
    ELSE LET k == MinOf(TopBars(p))
         IN  MatchCat(SubSeq(p, 1, k - 1), s, i) \cup MatchAlt(SubSeq(p, k + 1, Len(p)), s, i)

\* The same for a pattern without top-level alternation: a concatenation of atoms.
MatchCat(p, s, i) ==
    IF p = <<>> THEN {i}
    ELSE IF Head(p) = "("
    THEN LET k == CloseOf(p)
         IN  UNION {MatchCat(SubSeq(p, k + 1, Len(p)), s, j) :
                        j \in MatchAlt(SubSeq(p, 2, k - 1), s, i)}
    ELSE IF Head(p) = "^"
    THEN IF i = 0 THEN MatchCat(Tail(p), s, i) ELSE {}
    ELSE IF Head(p) = "$"
    THEN IF i = Len(s) THEN MatchCat(Tail(p), s, i) ELSE {}
    ELSE IF i < Len(s) /\ s[i + 1] = Head(p)
    THEN MatchCat(Tail(p), s, i + 1)
    ELSE {}

\* regexp.MatchString(pattern, s): the pattern matches some substring of s.
MatchString(pattern, s) ==
    \E i \in 0..Len(s) : MatchAlt(pattern, s, i) # {}

\* The start positions (0-based) at which pattern matches in s.
MatchStarts(pattern, s) ==
    {i \in 0..Len(s) : MatchAlt(pattern, s, i) # {}}

\* re.ReplaceAllString(s, "") for a pattern that ends in an ungrouped $ (as re does):
\* every match ends the text, so the leftmost match is the only one replaced (an empty
\* match abutting it is ignored) and what is left is the text before it.
ReplaceAllString(pattern, s) ==
    IF MatchStarts(pattern, s) = {} THEN s
    ELSE LET i == MinOf(MatchStarts(pattern, s))
             j == MinOf(MatchAlt(pattern, s, i))
         IN  SubSeq(s, 1, i) \o SubSeq(s, j + 1, Len(s))

\* re = regexp.MustCompile("(" + terminator + ")$"), from the flag (line 89).
re ==
    <<"(">> \o terminator \o <<")", "$">>

\* processLine (lines 122-134): [batchOut, found].
processLine(term, line, b) ==
    IF ~MatchString(term \o <<"$">>, line)
    THEN [batchOut |-> IF b = <<>> THEN line ELSE b \o <<"\n">> \o line, found |-> FALSE]
    ELSE [batchOut |-> b \o ReplaceAllString(re, line), found |-> TRUE]

(***************************************************************************)
(* Inputs.                                                                 *)
(***************************************************************************)
\* The default of flag -c (line 70).
DefaultTerminator ==
    <<";", "|", "^", "g", "o">>

\* Values of flag -c.
Terminators ==
    {DefaultTerminator, <<";">>}

\* The reserved literals of main's switch (lines 344, 347, 350).
CtlBegin ==
    <<"\\", "b">>

CtlCommit ==
    <<"\\", "c">>

CtlRollback ==
    <<"\\", "r">>

\* Lines a user types or a script holds, without their line end.
Lines ==
    { <<"a">>, <<"a", ";">>, <<"a", ";", "a">>, <<"g", "o">>,
      CtlBegin, CtlCommit, CtlRollback }

\* Values of an error: nil, io.EOF, a tds.SybError, any other error.
Errors ==
    {"nil", "EOF", "SybError", "other"}

\* What a ResultSet reports: Columns() (nil, empty or not), AffectedRows(),
\* ReturnStatus(), and HasNextResultSet() (more: another ResultSet follows it).
ResultSets ==
    { [cols |-> "nil", okAffected |-> FALSE, affected |-> 0,
       okReturnStatus |-> FALSE, returnStatus |-> 0, more |-> TRUE],
      [cols |-> "nil", okAffected |-> TRUE, affected |-> 3,
       okReturnStatus |-> FALSE, returnStatus |-> 0, more |-> FALSE],
      [cols |-> "empty", okAffected |-> TRUE, affected |-> 0,
       okReturnStatus |-> FALSE, returnStatus |-> 0, more |-> FALSE],
      [cols |-> "empty", okAffected |-> TRUE, affected |-> 2,
       okReturnStatus |-> TRUE, returnStatus |-> 0, more |-> TRUE],
      [cols |-> "empty", okAffected |-> FALSE, affected |-> 0,
       okReturnStatus |-> TRUE, returnStatus |-> 0, more |-> FALSE],
      [cols |-> "some", okAffected |-> FALSE, affected |-> 0,
       okReturnStatus |-> FALSE, returnStatus |-> 0, more |-> FALSE],
      [cols |-> "some", okAffected |-> TRUE, affected |-> 1,
       okReturnStatus |-> FALSE, returnStatus |-> 0, more |-> TRUE] }

\* The ResultSets the engine may produce as number k of a batch.
ResultSetsAt(k) ==
    {x \in ResultSets : x.more => k < MaxResultSets}

NoResultSet ==
    [cols |-> "nil", okAffected |-> FALSE, affected |-> 0,
     okReturnStatus |-> FALSE, returnStatus |-> 0, more |-> FALSE]

\* A channel with room for one notification.
ChanCapBuffered ==
    Len(<<"os.Interrupt">>)

\* Capacity of the channel made by make(chan os.Signal) (line 364).
ChanCap ==
    0

NoCalls ==
    [Begin |-> 0, Commit |-> 0, Rollback |-> 0, QueryContext |-> 0,
     armed |-> 0, cancel |-> 0, printed |-> 0]

NoOut ==
    [renders |-> 0, lines |-> <<>>, flushed |-> FALSE]

(***************************************************************************)
(* Initial state: flags parsed, connection and reader opened (lines        *)
(* 267-338), main about to enter its loop.                                 *)
(***************************************************************************)
Init ==
    /\ terminator \in Terminators
    /\ interactive \in BOOLEAN
    /\ pageSize \in 1..MaxPageSize
    /\ pc = "ReadBatch"
    /\ batch = <<>>
    /\ err = "nil"
    /\ rbatch = <<>>
    /\ lineNo = 1
    /\ atEOF = FALSE
    /\ fed = <<>>
    /\ intr = FALSE
    /\ discarded = FALSE
    /\ lpc = "none"
    /\ inFlightSig = FALSE
    /\ lateCancel = FALSE
    /\ cbuf = 0
    /\ idleSig = FALSE
    /\ rs = NoResultSet
    /\ rsIndex = 0
    /\ r = 0
    /\ tableRows = 0
    /\ calls = NoCalls
    /\ out = NoOut

config == <<terminator, interactive, pageSize>>
listener == <<lpc, inFlightSig, lateCancel, cbuf, idleSig>>
result == <<rs, rsIndex, r, tableRows>>

\* The histories of the previous cycle are dropped when the next one reads.
NewCycle ==
    /\ calls' = NoCalls
    /\ out' = NoOut
    /\ rs' = NoResultSet
    /\ rsIndex' = 0
    /\ r' = 0
    /\ tableRows' = 0
    /\ inFlightSig' = FALSE
    /\ lateCancel' = FALSE

\* ReadBatch returns (b, e) to main: batch, err = r.ReadBatch(terminator) (line 342).
Return(b, e) ==
    /\ batch' = b
    /\ err' = e
    /\ pc' = "dispatch"
    /\ rbatch' = <<>>
    /\ lineNo' = 1

\* continue input: main calls ReadBatch again, whose locals start afresh
\* (lines 148-150, 188-189).
ContinueInput ==
    /\ pc' = "ReadBatch"
    /\ rbatch' = <<>>
    /\ lineNo' = 1
    /\ fed' = <<>>
    /\ intr' = FALSE
    /\ discarded' = FALSE

(***************************************************************************)
(* readLineBatchReader.ReadBatch (lines 187-233), one Readline per step.   *)
(***************************************************************************)
\* An interrupt handler that resets the line counter and keeps the text.
RLInterruptKeepsText ==
    /\ pc = "ReadBatch" /\ interactive
    /\ lineNo' = 1
    /\ fed' = <<>>
    /\ intr' = TRUE
    /\ discarded' = (discarded \/ rbatch # <<>>)
    /\ NewCycle
    /\ UNCHANGED <<config, pc, batch, err, rbatch, atEOF, lpc, cbuf, idleSig>>

\* Readline returned readline.ErrInterrupt (lines 216-220).
RLInterrupt ==
    /\ pc = "ReadBatch" /\ interactive
    /\ lineNo' = 1
    /\ rbatch' = <<>>
    /\ fed' = <<>>
    /\ intr' = TRUE
    /\ discarded' = (discarded \/ rbatch # <<>>)
    /\ NewCycle
    /\ UNCHANGED <<config, pc, batch, err, atEOF, lpc, cbuf, idleSig>>

\* Readline returned another error, io.EOF included (lines 221-223).
RLError ==
    /\ pc = "ReadBatch" /\ interactive
    /\ \E e \in {"EOF", "other"} : Return(<<>>, e)
    /\ fed' = <<>>
    /\ intr' = FALSE
    /\ NewCycle
    /\ UNCHANGED <<config, atEOF, discarded, lpc, cbuf, idleSig>>

\* Readline returned a line (lines 225-231).
RLLine ==
    /\ pc = "ReadBatch" /\ interactive
    /\ Len(fed) < MaxLines
    /\ \E line \in Lines :
         LET p == processLine(terminator, line, rbatch)
         IN  /\ fed' = Append(fed, line)
             /\ IF p.found
                THEN Return(p.batchOut, "nil")
                ELSE /\ rbatch' = p.batchOut
                     /\ lineNo' = lineNo + 1
                     /\ UNCHANGED <<pc, batch, err>>
    /\ intr' = FALSE
    /\ NewCycle
    /\ UNCHANGED <<config, atEOF, discarded, lpc, cbuf, idleSig>>

(***************************************************************************)
(* fileBatchReader.ReadBatch (lines 147-169), one ReadString per step.     *)
(***************************************************************************)
\* ReadString failed with no line to process: io.EOF with line == "", or another
\* error (lines 152-155).
FReadError ==
    /\ pc = "ReadBatch" /\ ~interactive
    /\ \E e \in {"EOF", "other"} :
         /\ atEOF => e = "EOF"
         /\ Return(rbatch, e)
         /\ atEOF' = (atEOF \/ e = "EOF")
    /\ NewCycle
    /\ UNCHANGED <<config, fed, intr, discarded, lpc, cbuf, idleSig>>

\* ReadString returned a line: one ending in "\n", or the unended last line of the
\* stream together with io.EOF (lines 152-168).
FReadLine ==
    /\ pc = "ReadBatch" /\ ~interactive /\ ~atEOF
    /\ Len(fed) < MaxLines
    /\ \E text \in Lines, last \in BOOLEAN :
         LET line == IF last THEN text ELSE text \o <<"\n">>
             p == processLine(terminator, line, rbatch)
         IN  /\ last => text # <<>>
             /\ atEOF' = last
             /\ fed' = Append(fed, line)
             /\ IF p.found
                THEN Return(p.batchOut, "nil")
                ELSE /\ rbatch' = p.batchOut
                     /\ lineNo' = lineNo + 1
                     /\ UNCHANGED <<pc, batch, err>>
    /\ NewCycle
    /\ UNCHANGED <<config, intr, discarded, lpc, cbuf, idleSig>>

(***************************************************************************)
(* main's loop, control commands and read errors (lines 340-359).          *)
(***************************************************************************)
\* A switch whose cases for \c and \r are exchanged.
ControlCommandExchanged(b) ==
    IF b = CtlBegin THEN "Begin"
    ELSE IF b = CtlCommit THEN "Rollback"
    ELSE IF b = CtlRollback THEN "Commit"
    ELSE "none"

\* The session primitive main's switch selects for a batch text (lines 343-353).
ControlCommand(b) ==
    IF b = CtlBegin THEN "Begin"
    ELSE IF b = CtlCommit THEN "Commit"
    ELSE IF b = CtlRollback THEN "Rollback"
    ELSE "none"

\* One more call of primitive f on behalf of the current batch.
Called(f) ==
    [calls EXCEPT ![f] = @ + 1]

\* case "\\b": conn.Begin(); continue input (lines 344-346).
Begin ==
    /\ pc = "dispatch" /\ ControlCommand(batch) = "Begin"
    /\ calls' = Called("Begin")
    /\ ContinueInput
    /\ UNCHANGED <<config, batch, err, atEOF, listener, result, out>>

\* case "\\c": conn.Commit(); continue input (lines 347-349).
Commit ==
    /\ pc = "dispatch" /\ ControlCommand(batch) = "Commit"
    /\ calls' = Called("Commit")
    /\ ContinueInput
    /\ UNCHANGED <<config, batch, err, atEOF, listener, result, out>>

\* case "\\r": conn.Rollback(); continue input (lines 350-352).
Rollback ==
    /\ pc = "dispatch" /\ ControlCommand(batch) = "Rollback"
    /\ calls' = Called("Rollback")
    /\ ContinueInput
    /\ UNCHANGED <<config, batch, err, atEOF, listener, result, out>>

\* if err != nil: print it unless it is io.EOF, and break (lines 354-359); main
\* then returns.
ReadFailed ==
    /\ pc = "dispatch" /\ ControlCommand(batch) = "none"
    /\ err # "nil"
    /\ calls' = IF err # "EOF" THEN Called("printed") ELSE calls
    /\ pc' = "exit"
    /\ UNCHANGED <<config, batch, err, rbatch, lineNo, atEOF, fed, intr, discarded,
                   listener, result, out>>

(***************************************************************************)
(* Submission under a cancellable context (lines 361-381).                 *)
(***************************************************************************)
\* context.WithCancel, the two channels, signal.Notify and the go statement
\* (lines 362-374): c is a new, empty channel, and the listener goroutine exists but
\* has yet to reach its select.
ArmListener ==
    /\ pc = "dispatch" /\ ControlCommand(batch) = "none"
    /\ err = "nil"
    /\ pc' = "QueryContext"
    /\ lpc' = "spawned"
    /\ cbuf' = 0
    /\ calls' = Called("armed")
    /\ fed' = <<>>
    /\ intr' = FALSE
    /\ discarded' = FALSE
    /\ UNCHANGED <<config, batch, err, rbatch, lineNo, atEOF,
                   inFlightSig, lateCancel, idleSig, result, out>>

\* The listener goroutine reaches its select (line 368), where it takes a notification
\* that c holds (line 369).
ListenerSelect ==
    /\ lpc = "spawned"
    /\ lpc' = IF cbuf > 0 THEN "cancel" ELSE "select"
    /\ cbuf' = IF cbuf > 0 THEN cbuf - 1 ELSE cbuf
    /\ UNCHANGED <<config, pc, batch, err, rbatch, lineNo, atEOF, fed, intr, discarded,
                   inFlightSig, lateCancel, idleSig, result, calls, out>>

\* The OS delivers os.Interrupt or SIGTERM after signal.Notify (line 366).  Package
\* signal sends without blocking: the listener receives the notification if it waits
\* in its select (line 369); otherwise c keeps it if its buffer has room, and it is
\* dropped if not.  (Before the first signal.Notify the signal ends the process.)
Signal ==
    /\ lpc # "none" /\ pc # "exit"
    /\ lpc' = IF lpc = "select" THEN "cancel" ELSE lpc
    /\ cbuf' = IF lpc # "select" /\ cbuf < ChanCap THEN cbuf + 1 ELSE cbuf
    /\ inFlightSig' = (inFlightSig \/ pc = "QueryContext")
    /\ idleSig' = (idleSig \/ pc \in {"ReadBatch", "dispatch"})
    /\ UNCHANGED <<config, pc, batch, err, rbatch, lineNo, atEOF, fed, intr, discarded,
                   lateCancel, result, calls, out>>

\* A listener that returns right after cancel(), without receiving from done.
ListenerCancelReturns ==
    /\ lpc = "cancel"
    /\ lpc' = "exited"
    /\ calls' = Called("cancel")
    /\ lateCancel' = (lateCancel \/ pc # "QueryContext")
    /\ UNCHANGED <<config, pc, batch, err, rbatch, lineNo, atEOF, fed, intr, discarded,
                   inFlightSig, cbuf, idleSig, result, out>>

\* The listener calls cancel() and goes on to wait for done (lines 370-371).
ListenerCancel ==
    /\ lpc = "cancel"
    /\ lpc' = "waitDone"
    /\ calls' = Called("cancel")
    /\ lateCancel' = (lateCancel \/ pc # "QueryContext")
    /\ UNCHANGED <<config, pc, batch, err, rbatch, lineNo, atEOF, fed, intr, discarded,
                   inFlightSig, cbuf, idleSig, result, out>>

\* rows, err := conn.QueryContext(ctx, batch, nil) returns (line 377): rows standing on
\* a first ResultSet, or an error of any kind.
QueryContext ==
    /\ pc = "QueryContext"
    /\ \E e \in Errors :
         \E x \in (IF e = "nil" THEN ResultSetsAt(1) ELSE {NoResultSet}) :
           /\ err' = e
           /\ rs' = x
           /\ rsIndex' = IF e = "nil" THEN 1 ELSE 0
    /\ calls' = Called("QueryContext")
    /\ pc' = "rendezvous"
    /\ UNCHANGED <<config, batch, rbatch, lineNo, atEOF, fed, intr, discarded, listener,
                   r, tableRows, out>>

\* A select on done that main passes without the listener taking part.
RendezvousUnpaired ==
    /\ pc = "rendezvous"
    /\ lpc \in {"select", "waitDone"}
    /\ pc' = IF err = "nil" THEN "Columns" ELSE "failed"
    /\ UNCHANGED <<config, batch, err, rbatch, lineNo, atEOF, fed, intr, discarded,
                   listener, result, calls, out>>

\* The select on done (lines 378-381): nobody sends on done, so main's send is taken
\* by the listener, waiting in its select (line 372) or after cancel() (line 371);
\* the listener then returns.
Rendezvous ==
    /\ pc = "rendezvous"
    /\ lpc \in {"select", "waitDone"}
    /\ lpc' = "exited"
    /\ pc' = IF err = "nil" THEN "Columns" ELSE "failed"
    /\ UNCHANGED <<config, batch, err, rbatch, lineNo, atEOF, fed, intr, discarded,
                   inFlightSig, lateCancel, cbuf, idleSig, result, calls, out>>

\* if err != nil: print it unless it is a tds.SybError; continue input (lines 383-389).
\* The err of this scope ends with it: main's err is still the nil ReadBatch returned.
SubmitFailed ==
    /\ pc = "failed"
    /\ calls' = IF err # "SybError" THEN Called("printed") ELSE calls
    /\ err' = "nil"
    /\ inFlightSig' = FALSE
    /\ lateCancel' = FALSE
    /\ idleSig' = FALSE
    /\ ContinueInput
    /\ UNCHANGED <<config, batch, atEOF, lpc, cbuf, result, out>>

(***************************************************************************)
(* Result rendering (lines 391-475).                                       *)
(***************************************************************************)
\* len(cols), and len(data) with it (line 403), as far as the code reads it.
LenCols(cols) ==
    IF cols = "some" THEN 1 ELSE 0

\* table.Render() once more for the current ResultSet; the table is empty again.
Rendered ==
    [out EXCEPT !.renders = @ + 1]

\* table := newTable(w); cols := rows.Columns(); if cols == nil { continue input }
\* (lines 393-404).
Columns ==
    /\ pc = "Columns"
    /\ IF rs.cols = "nil"
       THEN /\ ContinueInput
            /\ UNCHANGED <<r, tableRows>>
       ELSE /\ pc' = "Next"
            /\ r' = 0
            /\ tableRows' = 0
            /\ UNCHANGED <<rbatch, lineNo, fed, intr, discarded>>
    /\ inFlightSig' = FALSE
    /\ lateCancel' = FALSE
    /\ idleSig' = FALSE
    /\ UNCHANGED <<config, batch, err, atEOF, lpc, cbuf, rs, rsIndex, calls, out>>

\* err = rows.Next(vals) delivers a row (lines 406-432): it is appended, and the page
\* is rendered and begun anew when r is a multiple of pageSize, whatever the columns.
NextRow ==
    /\ pc = "Next"
    /\ r < MaxRows
    /\ r' = r + 1
    /\ IF (r + 1) % pageSize = 0
       THEN /\ out' = Rendered
            /\ tableRows' = 0
       ELSE /\ tableRows' = tableRows + 1
            /\ UNCHANGED out
    /\ UNCHANGED <<config, pc, batch, err, rbatch, lineNo, atEOF, fed, intr, discarded,
                   listener, rs, rsIndex, calls>>

\* A row loop that gives up the whole batch when rows.Next fails.
NextEndAborts ==
    /\ pc = "Next"
    /\ \E e \in {"EOF", "SybError", "other"} :
         /\ err' = e
         /\ IF e = "EOF"
            THEN pc' = "tail" /\ UNCHANGED <<rbatch, lineNo, fed, intr, discarded>>
            ELSE ContinueInput
    /\ UNCHANGED <<config, batch, atEOF, listener, result, calls, out>>

\* err = rows.Next(vals) delivers io.EOF or another error: break (lines 408-412).
NextEnd ==
    /\ pc = "Next"
    /\ \E e \in {"EOF", "SybError", "other"} : err' = e
    /\ pc' = "tail"
    /\ UNCHANGED <<config, batch, rbatch, lineNo, atEOF, fed, intr, discarded,
                   listener, result, calls, out>>

\* The summary text of lines 442-457.
Display(x) ==
    (IF x.okAffected
     THEN IF x.affected > 1
          THEN ToString(x.affected) \o " rows affected"
          ELSE ToString(x.affected) \o " row affected"
     ELSE "")
    \o (IF x.okReturnStatus
        THEN (IF x.okAffected THEN ", " ELSE "") \o "return status = " \o ToString(x.returnStatus)
        ELSE "")

\* The lines written for the summary (lines 459-461).
SummaryLines(x) ==
    IF x.okReturnStatus \/ x.okAffected THEN <<"(" \o Display(x) \o ")">> ELSE <<>>

\* The render after the last row (line 435).
RenderLast(cols) ==
    LenCols(cols) > 0 /\ LenCols(cols) > 0

\* After the row loop: the last render, the summary line, w.Flush() (lines 435-463).
FinishResultSet ==
    /\ pc = "tail"
    /\ out' = [renders |-> IF RenderLast(rs.cols) THEN out.renders + 1 ELSE out.renders,
               lines |-> out.lines \o SummaryLines(rs),
               flushed |-> TRUE]
    /\ tableRows' = IF RenderLast(rs.cols) THEN 0 ELSE tableRows
    /\ pc' = "HasNext"
    /\ UNCHANGED <<config, batch, err, rbatch, lineNo, atEOF, fed, intr, discarded,
                   listener, rs, rsIndex, r, calls>>

\* HasNextResultSet() and NextResultSet() succeed: a blank line, and the loop goes on
\* with the next ResultSet (lines 466-470).
AdvanceResultSet ==
    /\ pc = "HasNext"
    /\ rs.more
    /\ \E x \in ResultSetsAt(rsIndex + 1) : rs' = x
    /\ rsIndex' = rsIndex + 1
    /\ err' = "nil"
    /\ out' = NoOut
    /\ pc' = "Columns"
    /\ UNCHANGED <<config, batch, rbatch, lineNo, atEOF, fed, intr, discarded,
                   listener, r, tableRows, calls>>

\* A loop that gives up the batch, not the process, when NextResultSet() fails.
AdvanceFailedContinues ==
    /\ pc = "HasNext"
    /\ rs.more
    /\ \E e \in {"SybError", "other"} : err' = e
    /\ ContinueInput
    /\ UNCHANGED <<config, batch, atEOF, listener, result, calls, out>>

\* HasNextResultSet() but NextResultSet() fails: main returns (lines 467-469).
AdvanceFailed ==
    /\ pc = "HasNext"
    /\ rs.more
    /\ \E e \in {"SybError", "other"} : err' = e
    /\ pc' = "exit"
    /\ UNCHANGED <<config, batch, rbatch, lineNo, atEOF, fed, intr, discarded,
                   listener, result, calls, out>>

\* No further ResultSet: break, and the outer loop calls ReadBatch (lines 471-475).
LastResultSet ==
    /\ pc = "HasNext"
    /\ ~rs.more
    /\ err' = "nil"
    /\ ContinueInput
    /\ UNCHANGED <<config, batch, atEOF, listener, result, calls, out>>

(***************************************************************************)
(* The program.                                                            *)
(***************************************************************************)
Next ==
    \/ RLInterrupt
    \/ RLError
    \/ RLLine
    \/ FReadError
    \/ FReadLine
    \/ Begin
    \/ Commit
    \/ Rollback
    \/ ReadFailed
    \/ ArmListener
    \/ ListenerSelect
    \/ Signal
    \/ ListenerCancel
    \/ QueryContext
    \/ Rendezvous
    \/ SubmitFailed
    \/ Columns
    \/ NextRow
    \/ NextEnd
    \/ FinishResultSet
    \/ AdvanceResultSet
    \/ AdvanceFailed
    \/ LastResultSet

Spec ==
    Init /\ [][Next]_vars

\* The program under Go's scheduler: a goroutine that can run does run, so the
\* listener reaches its select and calls cancel(), and a send on done that has a
\* receiver waiting is completed.
FairSpec ==
    /\ Spec
    /\ WF_vars(ListenerSelect)
    /\ WF_vars(ListenerCancel)
    /\ WF_vars(Rendezvous)

(***************************************************************************)
(* Vocabulary of the properties.                                           *)
(***************************************************************************)
\* The start positions of the suffixes of s that pattern t matches as a whole.
SuffixStarts(t, s) ==
    {i \in 0..Len(s) : Len(s) \in MatchAlt(t, s, i)}

\* Pattern t matches at the end of s.
EndsWithTerminator(t, s) ==
    SuffixStarts(t, s) # {}

\* s without the suffix that t matches.
Strip(t, s) ==
    SubSeq(s, 1, MinOf(SuffixStarts(t, s)))

\* A raw line without its line end.
Chomp(s) ==
    IF s # <<>> /\ s[Len(s)] = "\n" THEN SubSeq(s, 1, Len(s) - 1) ELSE s

\* The lines of ls joined by one newline between consecutive lines.
RECURSIVE JoinLines(_)
JoinLines(ls) ==
    IF ls = <<>> THEN <<>>
    ELSE IF Len(ls) = 1 THEN ls[1]
    ELSE ls[1] \o <<"\n">> \o JoinLines(Tail(ls))

\* What processLine has made of the lines ls, fed one by one from an empty batch.
RECURSIVE Accumulate(_)
Accumulate(ls) ==
    IF ls = <<>> THEN [batchOut |-> <<>>, found |-> FALSE]
    ELSE processLine(terminator, ls[Len(ls)],
                     Accumulate(SubSeq(ls, 1, Len(ls) - 1)).batchOut)

\* ReadBatch has just returned a finalized batch to main.
Finalized ==
    pc = "dispatch" /\ err = "nil" /\ fed # <<>>

\* main is at the call of ReadBatch, which has not read anything yet.
AtEntry ==
    pc = "ReadBatch" /\ fed = <<>> /\ ~intr

\* The calls record with one call of f and nothing else.
Only(f) ==
    [NoCalls EXCEPT ![f] = 1]

(***************************************************************************)
(* C1.  Terminator matching is anchored to the end of the line: a batch is *)
(* finalized only by a line of which the terminator pattern matches a      *)
(* suffix.                                                                 *)
(***************************************************************************)
C1_AnchoredAtEnd ==
    Finalized => EndsWithTerminator(terminator, fed[Len(fed)])

(***************************************************************************)
(* C2.  Whenever processLine reports found, the part of the line it        *)
(* appends to the batch is a strict prefix of the line.                    *)
(***************************************************************************)
C2_StrictPrefix ==
    Finalized =>
        LET line == fed[Len(fed)]
            before == Accumulate(SubSeq(fed, 1, Len(fed) - 1)).batchOut
            added == SubSeq(batch, Len(before) + 1, Len(batch))
        IN  /\ Len(added) < Len(line)
            /\ added = SubSeq(line, 1, Len(added))

(***************************************************************************)
(* C3.  When only the last of the lines L1..Ln ends with the terminator,   *)
(* the finalized batch is L1, ..., L(n-1), strip(Ln) joined by exactly one *)
(* newline between consecutive lines, with no leading or trailing newline  *)
(* (L1 and strip(Ln) are not empty).                                       *)
(***************************************************************************)
C3_JoinedByNewlines ==
    (/\ Finalized
     /\ EndsWithTerminator(terminator, fed[Len(fed)])
     /\ Chomp(fed[1]) # <<>>
     /\ Strip(terminator, fed[Len(fed)]) # <<>>) =>
        batch = JoinLines([i \in 1..Len(fed) |->
                             IF i = Len(fed) THEN Strip(terminator, fed[i])
                             ELSE Chomp(fed[i])])

(***************************************************************************)
(* C4.  A batch that is exactly \b, \c or \r causes exactly one call of    *)
(* Begin, Commit or Rollback respectively, is never passed to QueryContext,*)
(* arms no listener, renders nothing and is followed by the next ReadBatch *)
(* call; no other batch invokes Begin, Commit or Rollback.                 *)
(***************************************************************************)
Reserved ==
    {CtlBegin, CtlCommit, CtlRollback}

C4_ControlCommands ==
    /\ batch \in Reserved => pc \in {"dispatch", "ReadBatch"}
    /\ (AtEntry /\ batch \in Reserved) =>
          /\ calls = Only(IF batch = CtlBegin THEN "Begin"
                          ELSE IF batch = CtlCommit THEN "Commit" ELSE "Rollback")
          /\ out = NoOut
          /\ lpc \in {"none", "exited"}
    /\ (calls.Begin + calls.Commit + calls.Rollback > 0) => (AtEntry /\ batch \in Reserved)

C4_Witness ==
    AtEntry /\ batch = CtlCommit /\ calls = Only("Commit") /\ err = "nil"

(***************************************************************************)
(* C5.  A notification that arrives while a submission is in flight (after *)
(* signal.Notify, before QueryContext returns) cancels that submission's   *)
(* context exactly once, and the listener has returned before the next     *)
(* ReadBatch call begins.                                                  *)
(***************************************************************************)
C5_CanceledExactlyOnce ==
    /\ calls.cancel <= 1
    /\ (inFlightSig /\ pc \in {"Columns", "failed"}) => calls.cancel = 1
    /\ pc = "ReadBatch" => lpc \in {"none", "exited"}

(***************************************************************************)
(* C6.  When the script ends while text is pending and no terminator has   *)
(* matched, ReadBatch returns that text as one final successful batch      *)
(* (nil error).                                                            *)
(***************************************************************************)
PendingAtEOF ==
    /\ ~interactive /\ pc = "dispatch" /\ atEOF
    /\ fed # <<>> /\ ~Accumulate(fed).found

C6_ReturnedAsBatch ==
    PendingAtEOF => (err = "nil" /\ batch = Accumulate(fed).batchOut)

(***************************************************************************)
(* C7.  In the interactive source an interrupt discards the text           *)
(* accumulated so far, resets the line counter to 1 and stays inside       *)
(* ReadBatch; the batch returned is built only from the lines received     *)
(* after the last interrupt (fed holds exactly these).                     *)
(***************************************************************************)
C7_InterruptDiscards ==
    /\ intr => (pc = "ReadBatch" /\ lineNo = 1 /\ rbatch = <<>>)
    /\ (interactive /\ pc = "ReadBatch") =>
          (lineNo = Len(fed) + 1 /\ rbatch = Accumulate(fed).batchOut)
    /\ (interactive /\ Finalized) => batch = Accumulate(fed).batchOut

C7_Witness ==
    interactive /\ Finalized /\ discarded /\ Len(fed) = 2 /\ batch # <<>>

(***************************************************************************)
(* C8.  For a ResultSet with columns, R fetched rows and page size S, the  *)
(* table is rendered ceil(R / S) times when R > 0 and not at all when      *)
(* R = 0.                                                                  *)
(***************************************************************************)
CeilDiv(n, d) ==
    (n + d - 1) \div d

C8_RenderCount ==
    (pc = "HasNext" /\ rs.cols = "some") => out.renders = CeilDiv(r, pageSize)

(***************************************************************************)
(* C9.  At most one summary line per ResultSet: "1 row affected" for one   *)
(* row, "<n> rows affected" for 0 or for 2 and more, with the return       *)
(* status after a comma when both are reported, and no line when neither   *)
(* is.                                                                     *)
(***************************************************************************)
SummaryText(x) ==
    (IF x.okAffected
     THEN ToString(x.affected) \o (IF x.affected = 1 THEN " row affected" ELSE " rows affected")
     ELSE "")
    \o (IF x.okAffected /\ x.okReturnStatus THEN ", " ELSE "")
    \o (IF x.okReturnStatus THEN "return status = " \o ToString(x.returnStatus) ELSE "")

C9_SummaryLine ==
    pc = "HasNext" =>
        out.lines = IF rs.okAffected \/ rs.okReturnStatus
                    THEN <<"(" \o SummaryText(rs) \o ")">>
                    ELSE <<>>

(***************************************************************************)
(* C10.  A ResultSet without columns (nil or empty) that reports 3         *)
(* affected rows renders no table and has its summary line                 *)
(* "3 rows affected" written before the loop moves on.                     *)
(***************************************************************************)
C10_SummaryWithoutColumns ==
    (/\ calls.QueryContext = 1
     /\ pc = "HasNext" \/ AtEntry
     /\ rs.cols \in {"nil", "empty"}
     /\ rs.okAffected /\ rs.affected = 3 /\ ~rs.okReturnStatus) =>
        (out.renders = 0 /\ out.lines = <<"(3 rows affected)">>)

(***************************************************************************)
(* C11.  Whenever ReadBatch returns an error the main loop ends there,     *)
(* with nothing called on the session: silently on io.EOF, with the error  *)
(* printed exactly once otherwise, whatever text came with the error.      *)
(* (main's err holds the error ReadBatch returned until a listener is      *)
(* armed.)                                                                 *)
(***************************************************************************)
C11_ReadErrorEndsLoop ==
    (err # "nil" /\ calls.armed = 0) =>
        /\ pc \in {"dispatch", "exit"}
        /\ calls.Begin + calls.Commit + calls.Rollback + calls.QueryContext = 0
        /\ calls.printed = IF pc = "exit" /\ err # "EOF" THEN 1 ELSE 0

(***************************************************************************)
(* C12.  No error is dropped silently: once main has moved past an error   *)
(* that is neither io.EOF nor an engine error, be it from reading the      *)
(* source, from fetching a row or from advancing to the next ResultSet, it *)
(* has printed that error exactly once; and main prints nothing when no    *)
(* such error occurred.                                                    *)
(***************************************************************************)
C12_NoErrorDropped ==
    /\ (pc \in {"tail", "HasNext", "exit"} /\ err = "other") => calls.printed = 1
    /\ calls.printed <= 1

(***************************************************************************)
(* C13.  When another ResultSet is pending and advancing to it fails, the  *)
(* process stops: main leaves its loop for its exit, after which nothing   *)
(* is rendered, read or submitted any more.                                *)
(***************************************************************************)
C13_AdvanceFailureStops ==
    /\ [][(pc = "HasNext" /\ pc' # "HasNext" /\ err' # "nil") => pc' = "exit"]_vars
    /\ [][pc = "exit" => (pc' = "exit" /\ calls' = calls /\ out' = out /\ rs' = rs)]_vars

C13_Witness ==
    pc = "exit" /\ calls.QueryContext = 1 /\ rsIndex = 1 /\ rs.more /\ err = "other"

(***************************************************************************)
(* C14.  At most one listener is armed at any moment and exactly one per   *)
(* submitted batch: a listener is armed exactly while main is between      *)
(* arming it and the rendezvous; once main is past the rendezvous the      *)
(* listener has returned and cannot call cancel() any more, and none is    *)
(* armed while ReadBatch runs.                                             *)
(***************************************************************************)
ListenerArmed ==
    lpc \in {"spawned", "select", "cancel", "waitDone"}

C14_OneListenerPerSubmission ==
    /\ [](calls.armed <= 1 /\ calls.QueryContext <= calls.armed)
    /\ [](pc \in {"QueryContext", "rendezvous"} => (ListenerArmed /\ calls.armed = 1))
    /\ [](pc \notin {"QueryContext", "rendezvous"} =>
             (~ListenerArmed /\ calls.QueryContext = calls.armed))
    /\ [][calls'.cancel > calls.cancel => pc \in {"QueryContext", "rendezvous"}]_vars

C14_Witness ==
    /\ pc = "Columns" /\ rsIndex = 2
    /\ lpc = "exited" /\ calls.armed = 1 /\ calls.cancel = 1

(***************************************************************************)
(* C15.  cancel() is called only while the submission's QueryContext has   *)
(* not returned yet: an interrupt that arrives after QueryContext has      *)
(* returned, the time before the rendezvous included, never cancels the    *)
(* context.  (A cancel() after the return with no notification during the  *)
(* flight is the work of an interrupt that arrived after the return.)      *)
(***************************************************************************)
C15_CancelOnlyInFlight ==
    lateCancel => inFlightSig

(***************************************************************************)
(* C16.  Batches are strictly serialized: main is back at the call of      *)
(* ReadBatch only after every ResultSet the engine produced for the        *)
(* previous batch has been consumed, so the ResultSet main stood on last   *)
(* has none pending behind it.                                             *)
(***************************************************************************)
C16_StrictlySerialized ==
    (AtEntry /\ rsIndex >= 1) => ~rs.more

(***************************************************************************)
(* C17.  An error of rows.Next other than io.EOF ends the iteration of the *)
(* current ResultSet only.  As claimed: the rows fetched so far have all   *)
(* been rendered when main is through with the ResultSet.  As amended:     *)
(* main goes on to the tail of that ResultSet, where the rows fetched so   *)
(* far have all been rendered if the column list is not empty (with an     *)
(* empty column list the rows that did not fill a page stay unrendered),   *)
(* the summary line is written if affected rows or a return status are     *)
(* reported and the output is flushed, and from where main advances to the *)
(* following ResultSet if there is one.                                    *)
(***************************************************************************)
RowError ==
    err \in {"SybError", "other"}

C17_FetchedRowsRendered ==
    (pc = "HasNext" /\ RowError) => tableRows = 0

C17_RowErrorEndsResultSetOnly ==
    /\ [][(pc = "Next" /\ pc' # "Next") => (pc' = "tail" /\ out' = out /\ r' = r)]_vars
    /\ [][(pc = "tail" /\ pc' # "tail") => (pc' = "HasNext" /\ err' = err)]_vars
    /\ []((pc = "HasNext" /\ RowError) =>
             /\ rs.cols = "some" => (tableRows = 0 /\ out.renders >= 1)
             /\ rs.cols # "some" => (tableRows = r % pageSize
                                      /\ out.renders = r \div pageSize)
             /\ Len(out.lines) = IF rs.okAffected \/ rs.okReturnStatus THEN 1 ELSE 0
             /\ out.flushed)
    /\ [][(pc = "HasNext" /\ RowError /\ pc' # "HasNext") =>
             IF rs.more THEN pc' \in {"Columns", "exit"} /\ rsIndex' >= rsIndex
             ELSE pc' = "ReadBatch"]_vars

C17_Witness ==
    /\ pc = "HasNext" /\ err = "other" /\ rs.more /\ rs.cols = "some"
    /\ r = 1 /\ pageSize = 2 /\ out.renders = 1 /\ Len(out.lines) = 1 /\ out.flushed

(***************************************************************************)
(* C18.  A partial batch that ReadBatch returns with an error is           *)
(* discarded: none of Begin, Commit, Rollback and QueryContext is called   *)
(* for it, whatever its text.                                              *)
(***************************************************************************)
C18_PartialBatchDiscarded ==
    (err # "nil" /\ pc \in {"dispatch", "ReadBatch", "exit"} /\ calls.armed = 0) =>
        (calls.Begin = 0 /\ calls.Commit = 0 /\ calls.Rollback = 0
         /\ calls.QueryContext = 0)

(***************************************************************************)
(* C19.  The rendezvous never deadlocks: under every interleaving of       *)
(* interrupt, listener and main, once QueryContext has returned main's     *)
(* select on done completes and the listener goroutine returns.            *)
(***************************************************************************)
C19_RendezvousCompletes ==
    (pc = "rendezvous") ~> (pc \in {"Columns", "failed"} /\ lpc = "exited")

C19_Witness ==
    pc = "failed" /\ lpc = "exited" /\ calls.cancel = 1 /\ lateCancel /\ ~inFlightSig

(***************************************************************************)
(* C20.  Interrupts do not carry over between batches: a notification that *)
(* finds no listener waiting is not retained; the listener goes on to      *)
(* cancel() only through a notification delivered while it waits in its    *)
(* select, and every cancel() of a submission answers a notification that  *)
(* arrived after that submission's listener was armed.                     *)
(***************************************************************************)
C20_NoCarryOver ==
    /\ [](cbuf = 0)
    /\ [][(lpc' = "cancel" /\ lpc # "cancel") =>
             (lpc = "select" /\ pc \in {"QueryContext", "rendezvous"})]_vars
    /\ []((pc \in {"QueryContext", "rendezvous", "failed"} /\ calls.cancel > 0) =>
             (inFlightSig \/ lateCancel))
    /\ [][(pc \in {"ReadBatch", "dispatch"} /\ idleSig' /\ ~idleSig) =>
             (lpc' = lpc /\ calls' = calls /\ pc' = pc)]_vars

C20_Witness ==
    /\ pc = "rendezvous" /\ idleSig /\ ~inFlightSig
    /\ lpc = "select" /\ calls.cancel = 0 /\ calls.QueryContext = 1

====
